---- MODULE Spec2Model ----
(***************************************************************************)
(* Model of the task scheduling and pipeline-orchestration engine:         *)
(*   SchedulerService  (backend/app/services/scheduler/service.py)         *)
(*   PipelineTask      (backend/app/services/scheduler/tasks/pipeline.py)  *)
(*   PipelineExecutor  (backend/app/pipeline/orchestration/executor.py)    *)
(*                                                                         *)
(* The service runs on one asyncio event loop, so every action below is    *)
(* the code between two suspension points (await) of one activity.         *)
(* Time is the wall clock in whole minutes.                                 *)
(***************************************************************************)
EXTENDS Integers, Sequences, FiniteSets, Bags, TLC

(***************************************************************************)
(* Bounds of the model.                                                    *)
(***************************************************************************)
MaxTime == 1          \* the clock runs from 0 to MaxTime minutes
MaxQueue == 1         \* a scan pass is not taken when the queue's count of
                      \* unfinished items would exceed this
MaxEnded == 2         \* worker executions that return or raise
MaxLive == 3          \* worker activities alive at the same time
MaxManual == 1        \* manual executions in flight at the same time
MaxPoolQueue == 6     \* as MaxQueue and MaxLive, for PoolSpec
MaxPoolLive == 6
\* number of steps added to one pipeline executor
MaxSteps == 3

TaskIds == {"A"}

(***************************************************************************)
(* Program constants.                                                      *)
(***************************************************************************)
max_workers == 3
SemaphoreCapacity == 5
DefaultScanInterval == 60
SecondsPerMinute == 60
DayMinutes == 1440

NoTime == -1          \* None for last_run and for an unset start time
NoTask == "none"
NoError == "None"
ParseError == -1

\* self.start_datetime and self.license_end_datetime before any start
NoLicense == [start_datetime |-> NoTime, license_end_datetime |-> NoTime]

\* license_end_datetime inputs: one that the clock never passes and one that
\* it passes at the first minute
NeverExpires == MaxTime + 1
LicenseEnds == {0, NeverExpires}

\* an id that is never registered
UnknownIds == {"missing"}

NoCall == [op |-> "none", id |-> NoTask, error |-> "None"]

Raised(op, id, error) == [op |-> op, id |-> id, error |-> error]

(***************************************************************************)
(* Times of day are "HH:MM" strings, held as <<hour, minute>>.  strptime   *)
(* raises ValueError on an hour above 23 or a minute above 59.             *)
(***************************************************************************)
StrpTime(s) ==
    IF s[1] \in 0..23 /\ s[2] \in 0..59 THEN s[1] * 60 + s[2] ELSE ParseError

TimeOfDay(t) == t % DayMinutes

\* timedelta.total_seconds() of a difference of two clock readings
TotalSeconds(later, earlier) == (later - earlier) * SecondsPerMinute

(***************************************************************************)
(* ScheduledTask.__init__: the fields of a fresh task.                     *)
(***************************************************************************)
DefaultSchedule ==
    [daily_start_time |-> <<9, 0>>, daily_end_time |-> <<17, 30>>,
     interval_minutes |-> 60, enabled |-> TRUE]

\* the schedule of tasks/configs, with an interval of one minute
AllDaySchedule ==
    [daily_start_time |-> <<0, 0>>, daily_end_time |-> <<23, 59>>,
     interval_minutes |-> 1, enabled |-> TRUE]

\* the schedules the callers pass to registration and to update_task_schedule
ScheduleInputs ==
    { [daily_start_time |-> <<0, 0>>, daily_end_time |-> <<23, 59>>,
       interval_minutes |-> 1, enabled |-> TRUE],
      [daily_start_time |-> <<0, 1>>, daily_end_time |-> <<0, 1>>,
       interval_minutes |-> 1, enabled |-> TRUE],
      [daily_start_time |-> <<0, 0>>, daily_end_time |-> <<23, 59>>,
       interval_minutes |-> 1, enabled |-> FALSE] }

NewTask(s) ==
    [enabled |-> s.enabled, status |-> "idle", last_run |-> NoTime,
     error |-> NoError, daily_start_time |-> s.daily_start_time,
     daily_end_time |-> s.daily_end_time,
     interval_minutes |-> s.interval_minutes]

VARIABLES
    now,              \* datetime.now(), minutes
    tasks,            \* self.tasks: id -> task object
    reg_order,        \* iteration order of self.tasks (insertion order)
    task_configs,     \* ids that have an entry in self.task_configs
    service_status,   \* self.service_status
    task_queue,       \* self.task_queue, a sequence of task ids
    unfinished,       \* the queue's count of items put and not yet task_done
    permits,          \* value of self.semaphore
    metrics,          \* self.metrics; the average is the fraction avg[1]/avg[2]
    workers,          \* bag of live _worker_loop activities
    sched,            \* the _scheduler_loop activity (self._scheduler_task)
    sleep_task,       \* self._sleep_task
    manual,           \* bag of start_task calls that are inside execute
    runs,             \* per task: start of its last completed run, when a
                      \* worker dispatched that run, else NoTime
    executor,         \* a PipelineExecutor: tasks, context, the position of
                      \* its execute() and a record of the calls of the run
    license,          \* self.start_datetime and self.license_end_datetime
    api,              \* the last call of the service that raised: operation,
                      \* id and exception
    pipeline          \* a PipelineTask seen alone: its config, its execute
                      \* and the keyword arguments its function received

svars == <<now, tasks, reg_order, task_configs, service_status, task_queue,
           unfinished, permits, metrics, workers, sched, sleep_task, manual,
           runs>>

vars == <<svars, executor, license, api, pipeline>>

----------------------------------------------------------------------------
(***************************************************************************)
(* Helpers.                                                                *)
(***************************************************************************)
RECURSIVE Gcd(_, _)
Gcd(a, b) == IF b = 0 THEN a ELSE Gcd(b, a % b)

\* a fraction num/den in lowest terms, den > 0
Frac(num, den) ==
    LET g == Gcd(IF num < 0 THEN -num ELSE num, den)
    IN  IF g = 0 THEN <<0, 1>> ELSE <<num \div g, den \div g>>

Registered == DOMAIN tasks

OneWorker(w) == SetToBag({w})

RECURSIVE Copies(_, _)
Copies(B, P) ==
    IF P = {} THEN 0
    ELSE LET w == CHOOSE y \in P : TRUE
         IN  CopiesIn(w, B) + Copies(B, P \ {w})

\* n copies of w
BagOf(w, n) == [x \in {w} |-> n]

RECURSIVE Occurrences(_, _)
Occurrences(q, id) ==
    IF q = <<>> THEN 0
    ELSE (IF Head(q) = id THEN 1 ELSE 0) + Occurrences(Tail(q), id)

----------------------------------------------------------------------------
(***************************************************************************)
(* PipelineTask.execute, split at its one suspension point: the await of   *)
(* the pipeline function.                                                  *)
(***************************************************************************)
\* lines 23-25: the statements before the pipeline function is awaited
ExecuteBegin(task, t) ==
    [task EXCEPT !.status = "running", !.error = NoError, !.last_run = t]

\* line 29: the pipeline function returned
ExecuteReturn(task) == [task EXCEPT !.status = "completed"]

\* lines 30-33: the pipeline function raised an Exception with message msg
ExecuteRaise(task, msg) == [task EXCEPT !.status = "failed", !.error = msg]

\* asyncio.CancelledError is a BaseException: "except Exception" does not
\* catch it, so no statement of execute runs and the task is left as it is
ExecuteCancelled(task) == task

ErrorMessages == {"boom"}

(***************************************************************************)
(* SchedulerService._should_execute_task                                   *)
(***************************************************************************)
\* a check that lets every task through, whatever its enabled flag
IsDisabledNever(task) == FALSE

IsDisabled(task) == ~task.enabled

\* a check that takes no task as running
IsRunningNever(task) == FALSE

IsRunning(task) == task.status = "running"

\* a check that takes every time of day as inside the window
OutsideWindowNever(task_start, task_end, current_time) == FALSE

OutsideWindow(task_start, task_end, current_time) ==
    ~(task_start <= current_time /\ current_time <= task_end)

\* a check that finds the interval never reached
IntervalNeverReached(task, t) == TRUE

\* a check that finds the interval reached at any time
IntervalReachedAlways(task, t) == FALSE

\* minutes_passed < task.interval_minutes, minutes_passed = total_seconds / 60
IntervalNotReached(task, t) ==
    /\ task.last_run # NoTime
    /\ TotalSeconds(t, task.last_run) < task.interval_minutes * 60

ResetCompleted(task) ==
    IF task.status = "completed" THEN [task EXCEPT !.status = "idle"] ELSE task

\* the result and the task as the check leaves it
ShouldExecuteTask(task, current_time, t) ==
    LET task_start == StrpTime(task.daily_start_time)
        task_end == StrpTime(task.daily_end_time)
        no == [ok |-> FALSE, task |-> task]
    IN  IF IsDisabled(task) THEN no
        ELSE IF IsRunning(task) THEN no
        ELSE IF task_start = ParseError \/ task_end = ParseError THEN no
        ELSE IF OutsideWindow(task_start, task_end, current_time) THEN no
        ELSE IF IntervalNotReached(task, t) THEN no
        ELSE [ok |-> TRUE, task |-> ResetCompleted(task)]

\* SchedulerService._get_min_interval
RECURSIVE MinOf(_)
MinOf(S) ==
    LET x == CHOOSE y \in S : TRUE
    IN  IF S = {x} THEN x
        ELSE LET m == MinOf(S \ {x}) IN IF x < m THEN x ELSE m

GetMinInterval(ts) ==
    IF DOMAIN ts = {} THEN DefaultScanInterval
    ELSE MinOf({ts[id].interval_minutes : id \in DOMAIN ts})

\* the for loop of _scheduler_loop over self.tasks.items(), from position i
RECURSIVE ScanTasks(_, _, _, _, _)
ScanTasks(i, order, ts, q, t) ==
    IF i > Len(order) THEN [tasks |-> ts, queue |-> q]
    ELSE LET id == order[i]
             r == ShouldExecuteTask(ts[id], TimeOfDay(t), t)
         IN  ScanTasks(i + 1, order, [ts EXCEPT ![id] = r.task],
                       IF r.ok THEN Append(q, id) ELSE q, t)

----------------------------------------------------------------------------
(***************************************************************************)
(* The worker loop's bookkeeping.                                          *)
(***************************************************************************)
\* a _worker_loop activity: where it is suspended, the task it popped, the
\* start_time it took, the last_run stamp its execution set,
\* whether a cancel() is pending on it and whether self.worker_tasks holds it
IdleWorker(listed) ==
    [pc |-> "get", task |-> NoTask, start_time |-> NoTime,
     run_start |-> NoTime, must_cancel |-> FALSE, listed |-> listed]

InExec(w) == w.pc = "exec"

\* number of the workers W that are inside task.execute
ExecCount(W) == Copies(W, {w \in BagToSet(W) : InExec(w)})

HoldsTask(w) == w.pc \in {"acquire", "exec"}

\* a semaphore whose acquire never suspends
SemaphoreLockedNever(p) == FALSE

\* asyncio.Semaphore: acquire suspends while the value is zero
SemaphoreLocked(p) == p = 0

\* lines 145-149: the division raises ZeroDivisionError when tasks_executed = 0
FinallyRaises(m) == m.tasks_executed = 0

\* lines 146-149 on the fraction avg = <<p, q>>, execution_time in seconds
AverageAfter(m, execution_time) ==
    Frac(m.avg[1] * (m.tasks_executed - 1) + execution_time * m.avg[2],
         m.avg[2] * m.tasks_executed)

\* line 139 and line 141
CountExecuted(m) == [m EXCEPT !.tasks_executed = @ + 1]

CountFailed(m) == [m EXCEPT !.tasks_failed = @ + 1]

\* line 130: the while condition, taken when the worker comes round the loop
LoopAgain(w) ==
    IF service_status = "running"
    THEN OneWorker([IdleWorker(w.listed) EXCEPT !.must_cancel = w.must_cancel])
    ELSE EmptyBag

\* executions of task id in flight among the workers W and manual triggers M
InFlightIn(W, M, id) ==
    Copies(W, {w \in BagToSet(W) : InExec(w) /\ w.task = id}) +
    Copies(M, {e \in BagToSet(M) : e.task = id})

InFlight(id) == InFlightIn(workers, manual, id)

Abs(x) == IF x < 0 THEN -x ELSE x

\* worker executions that have ended by return or by an exception
Finished(m) == m.tasks_executed + m.tasks_failed

----------------------------------------------------------------------------
(***************************************************************************)
(* PipelineExecutor and the steps of processors/tasks.py.  A dict is a     *)
(* function from its keys; the value of a seed key is "config", the value  *)
(* of a returned key is the name of the class that returned it.            *)
(***************************************************************************)
EmptyDict == << >>

\* an update that forgets the keys the dict had
DictReplace(d, u) == u

DictUpdate(d, u) ==
    [k \in DOMAIN d \cup DOMAIN u |-> IF k \in DOMAIN u THEN u[k] ELSE d[k]]

TaskClasses == {"FetchArticlesTask", "ProcessArticlesTask", "GenerateSummariesTask"}

\* task.validate(context)
Validate(cls, context) ==
    CASE cls = "FetchArticlesTask" -> "source_type" \in DOMAIN context
      [] cls = "ProcessArticlesTask" -> TRUE
      [] cls = "GenerateSummariesTask" -> "source" \in DOMAIN context

\* the dict that task.execute(context) returns
TaskResult(cls) ==
    CASE cls = "FetchArticlesTask" -> [k \in {"fetched_articles"} |-> cls]
      [] cls = "ProcessArticlesTask" -> [k \in {"processed_articles"} |-> cls]
      [] cls = "GenerateSummariesTask" -> [k \in {"summaries"} |-> cls]

\* the contexts the callers pass to set_context; one of the keys is a key
\* that a step returns
SeedKeys == {"source_type", "source", "fetched_articles"}
SeedContexts == { [k \in K |-> "config"] : K \in SUBSET SeedKeys }

NoException == [type |-> "None", name |-> "None"]

NewExecutor ==
    [tasks |-> << >>, context |-> EmptyDict, result |-> EmptyDict,
     pc |-> "idle", i |-> 0, error |-> NoException,
     seed |-> EmptyDict, calls |-> << >>, rejected |-> 0,
     thrown |-> NoException]

ExecutorAtRest == executor.pc \in {"idle", "returned", "raised"}

\* an executor that goes on to execute whatever validate answered
AfterValidateIgnored(ok) == "execute"

\* where execute() goes after validate answered: line 47 raises on False
AfterValidate(ok) == IF ok THEN "execute" ELSE "on_failure"

\* the executor between runs; the record of the last run is dropped when the
\* executor is given another task or context
BetweenRuns ==
    [executor EXCEPT !.pc = "idle", !.i = 0, !.error = NoException,
                     !.seed = EmptyDict, !.calls = << >>, !.rejected = 0,
                     !.thrown = NoException]

\* the log of the run with one more call, of the current step
Called(op) == Append(executor.calls, [step |-> executor.i, op |-> op])

\* the exceptions task.execute raises
StepErrors == {"timeout", "refused"}

\* an executor that goes round the loop after on_failure
AfterOnFailureSwallowed == "validate"

\* line 63: after on_failure the exception is raised again
AfterOnFailure == "raised"

AddTask(cls) ==
    /\ ExecutorAtRest
    /\ Len(executor.tasks) < MaxSteps
    /\ executor' = [BetweenRuns EXCEPT !.tasks = Append(@, cls)]
    /\ UNCHANGED <<svars, license, api, pipeline>>

SetContext(context) ==
    /\ ExecutorAtRest
    /\ executor' = [BetweenRuns EXCEPT !.context = context]
    /\ UNCHANGED <<svars, license, api, pipeline>>

\* execute() is called: result = {}, the loop takes the first task or ends
ExecutorExecute ==
    /\ ExecutorAtRest
    /\ executor' = [executor EXCEPT
            !.result = EmptyDict, !.error = NoException,
            !.seed = executor.context, !.calls = << >>, !.rejected = 0,
            !.thrown = NoException,
            !.i = IF executor.tasks = << >> THEN 0 ELSE 1,
            !.pc = IF executor.tasks = << >> THEN "returned" ELSE "validate"]
    /\ UNCHANGED <<svars, license, api, pipeline>>

StepValidate ==
    /\ executor.pc = "validate"
    /\ LET cls == executor.tasks[executor.i]
           ok == Validate(cls, executor.context)
       IN executor' = [executor EXCEPT
            !.calls = Called("validate"),
            !.rejected = IF ok THEN @ ELSE executor.i,
            !.error = IF AfterValidate(ok) = "on_failure"
                        THEN [type |-> "ValueError", name |-> cls] ELSE @,
            !.pc = AfterValidate(ok)]
    /\ UNCHANGED <<svars, license, api, pipeline>>

StepExecute ==
    /\ executor.pc = "execute"
    /\ LET task_result == TaskResult(executor.tasks[executor.i])
       IN executor' = [executor EXCEPT
            !.calls = Called("execute"),
            !.context = DictUpdate(@, task_result),
            !.result = DictUpdate(@, task_result),
            !.pc = "on_success"]
    /\ UNCHANGED <<svars, license, api, pipeline>>

\* task.execute raises (the API client failed)
StepExecuteRaise(msg) ==
    /\ executor.pc = "execute"
    /\ executor' = [executor EXCEPT
            !.calls = Called("execute"),
            !.error = [type |-> "Exception", name |-> msg],
            !.thrown = [type |-> "Exception", name |-> msg],
            !.pc = "on_failure"]
    /\ UNCHANGED <<svars, license, api, pipeline>>

StepOnSuccess ==
    /\ executor.pc = "on_success"
    /\ executor' = [executor EXCEPT
            !.calls = Called("on_success"),
            !.i = IF executor.i < Len(executor.tasks) THEN @ + 1 ELSE @,
            !.pc = IF executor.i < Len(executor.tasks)
                     THEN "validate" ELSE "returned"]
    /\ UNCHANGED <<svars, license, api, pipeline>>

\* an on_success whose exception leaves execute() without on_failure
AfterOnSuccessRaiseUnhooked == "raised"

\* lines 58-62: on_success is awaited inside the try, so its exception is
\* handled by the same except clause
AfterOnSuccessRaise == "on_failure"

\* on_success of a task class that overrides it raises, after lines 53-54
\* have merged the step's map
StepOnSuccessRaise(msg) ==
    /\ executor.pc = "on_success"
    /\ executor' = [executor EXCEPT
            !.calls = Called("on_success"),
            !.error = [type |-> "CallbackError", name |-> msg],
            !.pc = AfterOnSuccessRaise]
    /\ UNCHANGED <<svars, license, api, pipeline>>

StepOnFailure ==
    /\ executor.pc = "on_failure"
    /\ executor' = [executor EXCEPT
            !.calls = Called("on_failure"), !.pc = AfterOnFailure]
    /\ UNCHANGED <<svars, license, api, pipeline>>

----------------------------------------------------------------------------
(***************************************************************************)
(* A PipelineTask and its config: tasks/configs/news_summary_pipeline.py   *)
(* builds it with config = {"context": {...}}, the pipeline-config route   *)
(* replaces config["context"], execute unpacks self.config into the       *)
(* keyword arguments of pipeline_func.                                     *)
(***************************************************************************)
Contexts ==
    [source_type : {"tw", "us"},
     source : {"TW_Stock_Summary", "US_Stock_Summary"},
     limit : {150, 10}]

NewsSummaryContext ==
    [source_type |-> "tw", source |-> "TW_Stock_Summary", limit |-> 150]

NoKwargs == [none |-> "none"]

\* the call f of the unpacked dict d: one keyword argument per key of d,
\* with the value d has for it
Unpack(d) == [k \in DOMAIN d |-> d[k]]

NewPipelineTask ==
    [name |-> "news_summary", config |-> [context |-> NewsSummaryContext],
     status |-> "idle", error |-> NoError, last_run |-> NoTime,
     pc |-> "idle", kwargs |-> NoKwargs]

\* the pipeline-config route: task.config["context"] = config.context
UpdatePipelineConfig(context) ==
    /\ pipeline' = [pipeline EXCEPT !.config.context = context]
    /\ UNCHANGED <<svars, executor, license, api>>

\* execute lines 22-27, up to the await of the pipeline function
PipelineExecute ==
    /\ pipeline.pc = "idle"
    /\ pipeline' = [ExecuteBegin(pipeline, now) EXCEPT
                        !.pc = "await", !.kwargs = Unpack(pipeline.config)]
    /\ UNCHANGED <<svars, executor, license, api>>

\* execute line 29
PipelineFuncReturn ==
    /\ pipeline.pc = "await"
    /\ pipeline' = [ExecuteReturn(pipeline) EXCEPT !.pc = "idle"]
    /\ UNCHANGED <<svars, executor, license, api>>

\* execute lines 30-33
PipelineFuncRaise(msg) ==
    /\ pipeline.pc = "await"
    /\ pipeline' = [ExecuteRaise(pipeline, msg) EXCEPT !.pc = "idle"]
    /\ UNCHANGED <<svars, executor, license, api>>

----------------------------------------------------------------------------
Init ==
    /\ now = 0
    /\ tasks = << >>
    /\ reg_order = << >>
    /\ task_configs = {}
    /\ service_status = "stopped"
    /\ task_queue = << >>
    /\ unfinished = 0
    /\ permits = SemaphoreCapacity
    /\ metrics = [tasks_executed |-> 0, tasks_failed |-> 0, avg |-> <<0, 1>>]
    /\ workers = EmptyBag
    /\ sched = [pc |-> "none", must_cancel |-> FALSE]
    /\ sleep_task = [state |-> "none", wake |-> 0]
    /\ manual = EmptyBag
    /\ runs = << >>
    /\ executor = NewExecutor
    /\ license = NoLicense
    /\ api = NoCall
    /\ pipeline = NewPipelineTask

\* a check that takes no licence as expired
LicenseExpiredNever(t, license_end_datetime) == FALSE

\* line 67: datetime.now() > license_end_datetime
LicenseExpired(t, license_end_datetime) == t > license_end_datetime

\* the loop activity is resumed: at its start, when its sleep is over, or
\* when its sleep was cancelled (CancelledError caught at line 182, continue)
SchedulerResumes ==
    \/ sched.pc = "start" /\ ~sched.must_cancel
    \/ /\ sched.pc = "sleep"
       /\ \/ sleep_task.state = "cancelled"
          \/ sleep_task.state = "pending" /\ now >= sleep_task.wake

\* a worker that the event loop can resume without waiting for a timer or
\* for the pipeline function
WorkerReady(w) ==
    \/ w.must_cancel
    \/ w.pc = "get" /\ task_queue # << >>
    \/ w.pc = "acquire" /\ ~SemaphoreLocked(permits)

\* some activity of the service is ready to run
Ready ==
    \/ sched.pc = "start"
    \/ SchedulerResumes
    \/ \E w \in BagToSet(workers) : WorkerReady(w)

\* the wall clock advances by one minute; activities that are ready run in
\* less than that
Tick ==
    /\ now < MaxTime
    /\ ~Ready
    /\ now' = now + 1
    /\ UNCHANGED <<tasks, reg_order, task_configs, service_status, task_queue,
                   unfinished, permits, metrics, workers, sched, sleep_task,
                   manual, runs>>

\* register_task(id, task, config) with a task object that is new to the
\* registry; the caller has set the task's schedule fields (scheduler/__init__.py)
RegisterTask(id, s, with_config) ==
    /\ id \notin Registered
    /\ tasks' = [x \in Registered \cup {id} |->
                    IF x = id THEN NewTask(s) ELSE tasks[x]]
    /\ runs' = [x \in Registered \cup {id} |->
                    IF x = id THEN NoTime ELSE runs[x]]
    /\ reg_order' = Append(reg_order, id)
    /\ task_configs' = IF with_config THEN task_configs \cup {id}
                       ELSE task_configs
    /\ UNCHANGED <<now, service_status, task_queue, unfinished, permits,
                   metrics, workers, sched, sleep_task, manual>>

\* start_service past its licence check: lines 72-82
StartService(live) ==
    /\ BagCardinality(workers) + max_workers <= live
    /\ service_status' = "running"
    /\ workers' = workers (+) BagOf(IdleWorker(TRUE), max_workers)
    /\ sched' = IF sched.pc \in {"none", "done"}
                THEN [pc |-> "start", must_cancel |-> FALSE] ELSE sched
    /\ UNCHANGED <<now, tasks, reg_order, task_configs, task_queue, unfinished,
                   permits, metrics, sleep_task, manual, runs>>

\* start_service(start_datetime, license_end_datetime) with a licence that
\* has not expired: lines 70-71 store the two datetimes
StartServiceLicensed(live, start_datetime, license_end_datetime) ==
    /\ ~LicenseExpired(now, license_end_datetime)
    /\ StartService(live)
    /\ license' = [start_datetime |-> start_datetime,
                   license_end_datetime |-> license_end_datetime]

\* start_service with an expired licence: line 68 raises
StartServiceExpired(start_datetime, license_end_datetime) ==
    /\ LicenseExpired(now, license_end_datetime)
    /\ api' = Raised("start_service", NoTask, "ServiceStateError")
    /\ UNCHANGED <<svars, executor, license, pipeline>>

\* worker.cancel() on the workers self.worker_tasks holds
CancelListed(w) ==
    IF w.listed THEN [w EXCEPT !.must_cancel = TRUE, !.listed = FALSE] ELSE w

\* lines 88-91 on the bag of workers W
CancelWorkers(W) ==
    LET S == BagToSet(W)
    IN  [x \in {CancelListed(w) : w \in S} |->
            Copies(W, {w \in S : CancelListed(w) = x})]

\* stop_service: cancelling the loop while it awaits self._sleep_task cancels
\* that sleep; a loop that has not run yet gets the cancellation at its start
StopService ==
    /\ service_status' = "stopped"
    /\ workers' = CancelWorkers(workers)
    /\ sched' = IF sched.pc = "start" THEN [sched EXCEPT !.must_cancel = TRUE]
                ELSE sched
    /\ sleep_task' = IF sched.pc = "sleep" /\ sleep_task.state = "pending"
                     THEN [sleep_task EXCEPT !.state = "cancelled"]
                     ELSE sleep_task
    /\ UNCHANGED <<now, tasks, reg_order, task_configs, task_queue, unfinished,
                   permits, metrics, manual, runs>>

\* one pass of the while loop of _scheduler_loop, up to the await of the sleep
ScanPass(cap) ==
    /\ SchedulerResumes
    /\ service_status = "running"
    /\ LET r == ScanTasks(1, reg_order, tasks, task_queue, now)
       IN  /\ unfinished + (Len(r.queue) - Len(task_queue)) <= cap
           /\ tasks' = r.tasks
           /\ task_queue' = r.queue
           /\ unfinished' = unfinished + (Len(r.queue) - Len(task_queue))
           /\ sleep_task' = [state |-> "pending",
                             wake |-> now + (GetMinInterval(r.tasks) * 60)
                                              \div SecondsPerMinute]
    /\ sched' = [pc |-> "sleep", must_cancel |-> FALSE]
    /\ UNCHANGED <<now, reg_order, task_configs, service_status, permits,
                   metrics, workers, manual, runs>>

\* the loop activity ends: the while condition is false after a resume, or
\* the activity was cancelled before it ran
SchedulerExit ==
    /\ \/ SchedulerResumes /\ service_status # "running"
       \/ sched.pc = "start" /\ sched.must_cancel
    /\ sched' = [pc |-> "done", must_cancel |-> FALSE]
    /\ sleep_task' = IF sleep_task.state \in {"pending", "cancelled"}
                     THEN [sleep_task EXCEPT !.state = "done"] ELSE sleep_task
    /\ UNCHANGED <<now, tasks, reg_order, task_configs, service_status,
                   task_queue, unfinished, permits, metrics, workers, manual,
                   runs>>

\* lines 253-254: with an entry in self.task_configs the attribute schedule
\* is read from a TaskConfig, which has none: AttributeError
UpdateRaises(id) == id \in task_configs

\* update_task_schedule(id, s) on a registered id.  With an entry in
\* self.task_configs line 254 raises AttributeError (TaskConfig has no
\* attribute schedule) and the sleep is not cancelled.
UpdateTaskSchedule(id, s) ==
    /\ id \in Registered
    /\ tasks' = [tasks EXCEPT ![id] =
                    [@ EXCEPT !.daily_start_time = s.daily_start_time,
                              !.daily_end_time = s.daily_end_time,
                              !.interval_minutes = s.interval_minutes,
                              !.enabled = s.enabled]]
    /\ sleep_task' = IF ~UpdateRaises(id) /\ sleep_task.state = "pending"
                     THEN [sleep_task EXCEPT !.state = "cancelled"]
                     ELSE sleep_task
    /\ UNCHANGED <<now, reg_order, task_configs, service_status, task_queue,
                   unfinished, permits, metrics, workers, sched, manual,
                   runs>>

----------------------------------------------------------------------------
(***************************************************************************)
(* _worker_loop.  A worker is suspended at the queue pop ("get"), at the   *)
(* semaphore ("acquire"), inside task.execute ("exec") or in the one       *)
(* second sleep of its error handler ("sleep").                            *)
(***************************************************************************)
Swap(w, B) == (workers (-) OneWorker(w)) (+) B

\* lines 137-138 up to the await of the pipeline function
WorkerBeginsExecute(w, id, start_time) ==
    /\ permits' = permits - 1
    /\ tasks' = [tasks EXCEPT ![id] = ExecuteBegin(@, now)]
    /\ workers' = Swap(w, OneWorker([w EXCEPT !.pc = "exec", !.task = id,
                           !.start_time = start_time, !.run_start = now]))

\* lines 133-138: the pop returns a task; the permit is taken at once when
\* the semaphore has one, else the worker waits for it
WorkerDispatch(w) ==
    /\ w.pc = "get" /\ ~w.must_cancel
    /\ task_queue # << >>
    /\ task_queue' = Tail(task_queue)
    /\ IF SemaphoreLocked(permits)
       THEN /\ workers' = Swap(w, OneWorker([w EXCEPT !.pc = "acquire",
                                   !.task = Head(task_queue),
                                   !.start_time = now]))
            /\ UNCHANGED <<permits, tasks>>
       ELSE WorkerBeginsExecute(w, Head(task_queue), now)
    /\ UNCHANGED <<now, reg_order, task_configs, service_status, unfinished,
                   metrics, sched, sleep_task, manual, runs>>

\* line 137: a waiting worker gets a permit
WorkerAcquire(w) ==
    /\ w.pc = "acquire" /\ ~w.must_cancel
    /\ ~SemaphoreLocked(permits)
    /\ WorkerBeginsExecute(w, w.task, w.start_time)
    /\ UNCHANGED <<now, reg_order, task_configs, service_status, task_queue,
                   unfinished, metrics, sched, sleep_task, manual, runs>>

\* lines 143-156 with the counters m: the finally block, then round the loop
\* or, when the division raised, the handler of line 154 and its sleep
WorkerFinally(w, m) ==
    IF FinallyRaises(m)
    THEN /\ metrics' = m
         /\ unfinished' = unfinished
         /\ workers' = Swap(w, OneWorker([IdleWorker(w.listed) EXCEPT
                                              !.pc = "sleep"]))
    ELSE /\ metrics' = [m EXCEPT !.avg =
                           AverageAfter(m, TotalSeconds(now, w.start_time))]
         /\ unfinished' = unfinished - 1
         /\ workers' = Swap(w, LoopAgain(w))

\* the pipeline function returns: execute line 29, service lines 139, 143-150
WorkerExecReturn(w) ==
    /\ w.pc = "exec" /\ ~w.must_cancel
    /\ Finished(metrics) < MaxEnded
    /\ tasks' = [tasks EXCEPT ![w.task] = ExecuteReturn(@)]
    /\ permits' = permits + 1
    /\ WorkerFinally(w, CountExecuted(metrics))
    /\ runs' = [runs EXCEPT ![w.task] = w.run_start]
    /\ UNCHANGED <<now, reg_order, task_configs, service_status, task_queue,
                   sched, sleep_task, manual>>

\* the pipeline function raises: execute lines 30-33, service lines 140-150
WorkerExecRaise(w, msg) ==
    /\ w.pc = "exec" /\ ~w.must_cancel
    /\ Finished(metrics) < MaxEnded
    /\ tasks' = [tasks EXCEPT ![w.task] = ExecuteRaise(@, msg)]
    /\ permits' = permits + 1
    /\ WorkerFinally(w, CountFailed(metrics))
    /\ UNCHANGED <<now, reg_order, task_configs, service_status, task_queue,
                   sched, sleep_task, manual, runs>>

\* line 156: the sleep of the error handler is over
WorkerSleepDone(w) ==
    /\ w.pc = "sleep" /\ ~w.must_cancel
    /\ workers' = Swap(w, LoopAgain(w))
    /\ UNCHANGED <<now, tasks, reg_order, task_configs, service_status,
                   task_queue, unfinished, permits, metrics, sched, sleep_task,
                   manual, runs>>

\* the finally block run by a CancelledError: when the division does not
\* raise, CancelledError goes on to line 152 and the worker ends; when it
\* raises, ZeroDivisionError replaces it and line 154 keeps the worker
CancelledFinally(w) ==
    IF FinallyRaises(metrics)
    THEN /\ workers' = Swap(w, OneWorker([IdleWorker(FALSE) EXCEPT
                                              !.pc = "sleep"]))
         /\ UNCHANGED <<metrics, unfinished>>
    ELSE /\ metrics' = [metrics EXCEPT !.avg =
                           AverageAfter(metrics,
                                        TotalSeconds(now, w.start_time))]
         /\ unfinished' = unfinished - 1
         /\ workers' = Swap(w, EmptyBag)

\* a worker that stop_service cancelled is resumed with CancelledError
WorkerCancelled(w) ==
    /\ w.must_cancel
    /\ CASE w.pc \in {"get", "sleep"} ->
              /\ workers' = Swap(w, EmptyBag)
              /\ UNCHANGED <<tasks, permits, metrics, unfinished>>
         [] w.pc = "acquire" ->
              /\ CancelledFinally(w)
              /\ UNCHANGED <<tasks, permits>>
         [] w.pc = "exec" ->
              /\ tasks' = [tasks EXCEPT ![w.task] = ExecuteCancelled(@)]
              /\ permits' = permits + 1
              /\ CancelledFinally(w)
    /\ UNCHANGED <<now, reg_order, task_configs, service_status, task_queue,
                   sched, sleep_task, manual, runs>>

----------------------------------------------------------------------------
(***************************************************************************)
(* start_task: the manual trigger.                                         *)
(***************************************************************************)
\* a manual trigger that takes a permit of the semaphore, when one is free
ManualPermitsTaken(p) == IF p > 0 THEN p - 1 ELSE p

\* line 238 awaits task.execute() outside of "async with self.semaphore":
\* the value of the semaphore is left as it is
ManualPermits(p) == p

\* lines 231-238 up to the await of the pipeline function
StartTask(id) ==
    /\ id \in Registered
    /\ ~IsRunning(tasks[id])
    /\ BagCardinality(manual) < MaxManual
    /\ tasks' = [tasks EXCEPT ![id] = ExecuteBegin(@, now)]
    /\ manual' = manual (+) OneWorker([task |-> id])
    /\ permits' = ManualPermits(permits)
    /\ UNCHANGED <<now, reg_order, task_configs, service_status, task_queue,
                   unfinished, metrics, workers, sched, sleep_task, runs>>

\* a manual run ends: the run that completed is not one a worker dispatched
ManualReturn(e) ==
    /\ tasks' = [tasks EXCEPT ![e.task] = ExecuteReturn(@)]
    /\ manual' = manual (-) OneWorker(e)
    /\ runs' = [runs EXCEPT ![e.task] = NoTime]
    /\ UNCHANGED <<now, reg_order, task_configs, service_status, task_queue,
                   unfinished, permits, metrics, workers, sched, sleep_task>>

ManualRaise(e, msg) ==
    /\ tasks' = [tasks EXCEPT ![e.task] = ExecuteRaise(@, msg)]
    /\ manual' = manual (-) OneWorker(e)
    /\ UNCHANGED <<now, reg_order, task_configs, service_status, task_queue,
                   unfinished, permits, metrics, workers, sched, sleep_task,
                   runs>>

----------------------------------------------------------------------------
(***************************************************************************)
(* Calls of the service that raise before they do anything.                *)
(***************************************************************************)
\* a lookup that finds no id
KnownTaskNever(id) == FALSE

\* "task_id not in self.tasks" of lines 100, 231 and 242, negated
KnownTask(id) == id \in Registered

\* start_task lines 231-232
StartTaskNotFound(id) ==
    /\ ~KnownTask(id)
    /\ api' = Raised("start_task", id, "TaskNotFoundError")
    /\ UNCHANGED <<svars, executor, license, pipeline>>

\* start_task lines 234-236
StartTaskRunning(id) ==
    /\ KnownTask(id)
    /\ IsRunning(tasks[id])
    /\ api' = Raised("start_task", id, "ServiceStateError")
    /\ UNCHANGED <<svars, executor, license, pipeline>>

\* update_task_schedule lines 242-243
UpdateTaskScheduleNotFound(id, s) ==
    /\ ~KnownTask(id)
    /\ api' = Raised("update_task_schedule", id, "TaskNotFoundError")
    /\ UNCHANGED <<svars, executor, license, pipeline>>

\* get_task_info lines 100-101
GetTaskInfoNotFound(id) ==
    /\ ~KnownTask(id)
    /\ api' = Raised("get_task_info", id, "TaskNotFoundError")
    /\ UNCHANGED <<svars, executor, license, pipeline>>

----------------------------------------------------------------------------
Next ==
    \/ /\ Tick
       /\ UNCHANGED <<executor, license, api, pipeline>>
    \/ /\ \E id \in TaskIds, s \in ScheduleInputs \cup {DefaultSchedule},
             c \in BOOLEAN : RegisterTask(id, s, c)
       /\ UNCHANGED <<executor, license, api, pipeline>>
    \/ /\ StartServiceLicensed(MaxLive, 0, NeverExpires)
       /\ UNCHANGED <<executor, api, pipeline>>
    \/ /\ StopService
       /\ UNCHANGED <<executor, license, api, pipeline>>
    \/ /\ ScanPass(MaxQueue)
       /\ UNCHANGED <<executor, license, api, pipeline>>
    \/ /\ SchedulerExit
       /\ UNCHANGED <<executor, license, api, pipeline>>
    \/ /\ \E id \in TaskIds, s \in ScheduleInputs : UpdateTaskSchedule(id, s)
       /\ UNCHANGED <<executor, license, api, pipeline>>
    \/ /\ \E w \in BagToSet(workers) : WorkerDispatch(w)
       /\ UNCHANGED <<executor, license, api, pipeline>>
    \/ /\ \E w \in BagToSet(workers) : WorkerExecReturn(w)
       /\ UNCHANGED <<executor, license, api, pipeline>>
    \/ /\ \E w \in BagToSet(workers), msg \in ErrorMessages : WorkerExecRaise(w, msg)
       /\ UNCHANGED <<executor, license, api, pipeline>>
    \/ /\ \E w \in BagToSet(workers) : WorkerSleepDone(w)
       /\ UNCHANGED <<executor, license, api, pipeline>>
    \/ /\ \E w \in BagToSet(workers) : WorkerCancelled(w)
       /\ UNCHANGED <<executor, license, api, pipeline>>
    \/ /\ \E id \in TaskIds : StartTask(id)
       /\ UNCHANGED <<executor, license, api, pipeline>>
    \/ /\ \E e \in BagToSet(manual) : ManualReturn(e)
       /\ UNCHANGED <<executor, license, api, pipeline>>
    \/ /\ \E e \in BagToSet(manual), msg \in ErrorMessages : ManualRaise(e, msg)
       /\ UNCHANGED <<executor, license, api, pipeline>>

\* The service with start_service called only when no worker is alive: one
\* pool of max_workers workers never finds the semaphore locked, so no worker
\* waits at it (WorkerAcquire is part of PoolSpec).
Spec == Init /\ [][Next]_vars

\* the worker pool and the semaphore with start_service called again while
\* the service runs; the clock and the manual triggers, which touch neither,
\* stand still
PoolNext ==
    \/ /\ \E id \in TaskIds, s \in ScheduleInputs \cup {DefaultSchedule},
             c \in BOOLEAN : RegisterTask(id, s, c)
       /\ UNCHANGED <<executor, license, api, pipeline>>
    \/ /\ StartServiceLicensed(MaxPoolLive, 0, NeverExpires)
       /\ UNCHANGED <<executor, api, pipeline>>
    \/ /\ StopService
       /\ UNCHANGED <<executor, license, api, pipeline>>
    \/ /\ ScanPass(MaxPoolQueue)
       /\ UNCHANGED <<executor, license, api, pipeline>>
    \/ /\ SchedulerExit
       /\ UNCHANGED <<executor, license, api, pipeline>>
    \/ /\ \E id \in TaskIds, s \in ScheduleInputs : UpdateTaskSchedule(id, s)
       /\ UNCHANGED <<executor, license, api, pipeline>>
    \/ /\ \E w \in BagToSet(workers) : WorkerDispatch(w)
       /\ UNCHANGED <<executor, license, api, pipeline>>
    \/ /\ \E w \in BagToSet(workers) : WorkerAcquire(w)
       /\ UNCHANGED <<executor, license, api, pipeline>>
    \/ /\ \E w \in BagToSet(workers) : WorkerExecReturn(w)
       /\ UNCHANGED <<executor, license, api, pipeline>>
    \/ /\ \E w \in BagToSet(workers), msg \in ErrorMessages : WorkerExecRaise(w, msg)
       /\ UNCHANGED <<executor, license, api, pipeline>>
    \/ /\ \E w \in BagToSet(workers) : WorkerSleepDone(w)
       /\ UNCHANGED <<executor, license, api, pipeline>>
    \/ /\ \E w \in BagToSet(workers) : WorkerCancelled(w)
       /\ UNCHANGED <<executor, license, api, pipeline>>

PoolSpec == Init /\ [][PoolNext]_vars

\* The doubled worker pool with one task on the all-day schedule, queued
\* again at every pass, and the manual trigger; no stop and no clock
PermitNext ==
    \/ /\ \E id \in TaskIds : RegisterTask(id, AllDaySchedule, FALSE)
       /\ UNCHANGED <<executor, license, api, pipeline>>
    \/ /\ StartServiceLicensed(MaxPoolLive, 0, NeverExpires)
       /\ UNCHANGED <<executor, api, pipeline>>
    \/ /\ ScanPass(MaxPoolQueue)
       /\ UNCHANGED <<executor, license, api, pipeline>>
    \/ /\ \E id \in TaskIds : UpdateTaskSchedule(id, AllDaySchedule)
       /\ UNCHANGED <<executor, license, api, pipeline>>
    \/ /\ \E w \in BagToSet(workers) : WorkerDispatch(w)
       /\ UNCHANGED <<executor, license, api, pipeline>>
    \/ /\ \E w \in BagToSet(workers) : WorkerAcquire(w)
       /\ UNCHANGED <<executor, license, api, pipeline>>
    \/ /\ \E w \in BagToSet(workers) : WorkerExecReturn(w)
       /\ UNCHANGED <<executor, license, api, pipeline>>
    \/ /\ \E id \in TaskIds : StartTask(id)
       /\ UNCHANGED <<executor, license, api, pipeline>>
    \/ /\ \E e \in BagToSet(manual) : ManualReturn(e)
       /\ UNCHANGED <<executor, license, api, pipeline>>
    \/ /\ \E e \in BagToSet(manual), msg \in ErrorMessages : ManualRaise(e, msg)
       /\ UNCHANGED <<executor, license, api, pipeline>>

PermitSpec == Init /\ [][PermitNext]_vars

\* The calls of the service with their failures, against a service that is
\* started under either licence and is not stopped
ApiNext ==
    \/ /\ Tick
       /\ UNCHANGED <<executor, license, api, pipeline>>
    \/ /\ \E id \in TaskIds, s \in ScheduleInputs \cup {DefaultSchedule},
             c \in BOOLEAN : RegisterTask(id, s, c)
       /\ UNCHANGED <<executor, license, api, pipeline>>
    \/ /\ \E t \in LicenseEnds : StartServiceLicensed(MaxLive, 0, t)
       /\ UNCHANGED <<executor, api, pipeline>>
    \/ \E t \in LicenseEnds : StartServiceExpired(0, t)
    \/ /\ ScanPass(MaxQueue)
       /\ UNCHANGED <<executor, license, api, pipeline>>
    \/ /\ \E id \in TaskIds, s \in ScheduleInputs : UpdateTaskSchedule(id, s)
       /\ UNCHANGED <<executor, license, api, pipeline>>
    \/ \E id \in TaskIds \cup UnknownIds, s \in ScheduleInputs :
          UpdateTaskScheduleNotFound(id, s)
    \/ /\ \E w \in BagToSet(workers) : WorkerDispatch(w)
       /\ UNCHANGED <<executor, license, api, pipeline>>
    \/ /\ \E w \in BagToSet(workers) : WorkerExecReturn(w)
       /\ UNCHANGED <<executor, license, api, pipeline>>
    \/ /\ \E w \in BagToSet(workers), msg \in ErrorMessages : WorkerExecRaise(w, msg)
       /\ UNCHANGED <<executor, license, api, pipeline>>
    \/ /\ \E w \in BagToSet(workers) : WorkerSleepDone(w)
       /\ UNCHANGED <<executor, license, api, pipeline>>
    \/ /\ \E id \in TaskIds : StartTask(id)
       /\ UNCHANGED <<executor, license, api, pipeline>>
    \/ \E id \in TaskIds \cup UnknownIds : StartTaskNotFound(id)
    \/ \E id \in TaskIds : StartTaskRunning(id)
    \/ \E id \in TaskIds \cup UnknownIds : GetTaskInfoNotFound(id)
    \/ /\ \E e \in BagToSet(manual) : ManualReturn(e)
       /\ UNCHANGED <<executor, license, api, pipeline>>
    \/ /\ \E e \in BagToSet(manual), msg \in ErrorMessages : ManualRaise(e, msg)
       /\ UNCHANGED <<executor, license, api, pipeline>>

ApiSpec == Init /\ [][ApiNext]_vars

\* The callers of update_task_schedule also pass a schedule whose window
\* ends before it starts: the pattern of TaskScheduleConfig accepts each of
\* the two times and no code compares them
InvertedSchedule ==
    [daily_start_time |-> <<0, 1>>, daily_end_time |-> <<0, 0>>,
     interval_minutes |-> 1, enabled |-> TRUE]

ConfigInputs == ScheduleInputs \cup {InvertedSchedule}

ConfigNext ==
    \/ /\ Tick
       /\ UNCHANGED <<executor, license, api, pipeline>>
    \/ /\ \E id \in TaskIds, s \in ScheduleInputs \cup {DefaultSchedule},
             c \in BOOLEAN : RegisterTask(id, s, c)
       /\ UNCHANGED <<executor, license, api, pipeline>>
    \/ /\ StartServiceLicensed(MaxLive, 0, NeverExpires)
       /\ UNCHANGED <<executor, api, pipeline>>
    \/ /\ ScanPass(MaxQueue)
       /\ UNCHANGED <<executor, license, api, pipeline>>
    \/ /\ \E id \in TaskIds, s \in ConfigInputs : UpdateTaskSchedule(id, s)
       /\ UNCHANGED <<executor, license, api, pipeline>>
    \/ \E id \in TaskIds \cup UnknownIds, s \in ConfigInputs :
          UpdateTaskScheduleNotFound(id, s)
    \/ /\ \E w \in BagToSet(workers) : WorkerDispatch(w)
       /\ UNCHANGED <<executor, license, api, pipeline>>
    \/ /\ \E w \in BagToSet(workers) : WorkerExecReturn(w)
       /\ UNCHANGED <<executor, license, api, pipeline>>
    \/ /\ \E w \in BagToSet(workers), msg \in ErrorMessages : WorkerExecRaise(w, msg)
       /\ UNCHANGED <<executor, license, api, pipeline>>
    \/ /\ \E w \in BagToSet(workers) : WorkerSleepDone(w)
       /\ UNCHANGED <<executor, license, api, pipeline>>

ConfigSpec == Init /\ [][ConfigNext]_vars

\* One PipelineTask, its administrative updates and its executions
TaskNext ==
    \/ \E context \in Contexts : UpdatePipelineConfig(context)
    \/ PipelineExecute
    \/ PipelineFuncReturn
    \/ \E msg \in ErrorMessages : PipelineFuncRaise(msg)

TaskSpec == Init /\ [][TaskNext]_vars

\* The service is started and not stopped, its tasks are registered with any
\* schedule and updated to the all-day schedule only; there are no manual
\* triggers
LiveScan == ScanPass(MaxQueue) /\ UNCHANGED <<executor, license, api, pipeline>>

LiveDispatch ==
    /\ \E w \in BagToSet(workers) : WorkerDispatch(w)
    /\ UNCHANGED <<executor, license, api, pipeline>>

\* the pipeline function of a worker's execution ends
LivePipelineEnds ==
    /\ \E w \in BagToSet(workers) :
          \/ WorkerExecReturn(w)
          \/ \E msg \in ErrorMessages : WorkerExecRaise(w, msg)
    /\ UNCHANGED <<executor, license, api, pipeline>>

LiveTick == Tick /\ UNCHANGED <<executor, license, api, pipeline>>

LiveNext ==
    \/ LiveTick
    \/ /\ \E id \in TaskIds, s \in ScheduleInputs \cup {DefaultSchedule},
             c \in BOOLEAN : RegisterTask(id, s, c)
       /\ UNCHANGED <<executor, license, api, pipeline>>
    \/ /\ StartServiceLicensed(MaxLive, 0, NeverExpires)
       /\ UNCHANGED <<executor, api, pipeline>>
    \/ LiveScan
    \/ /\ \E id \in TaskIds : UpdateTaskSchedule(id, AllDaySchedule)
       /\ UNCHANGED <<executor, license, api, pipeline>>
    \/ LiveDispatch
    \/ LivePipelineEnds
    \/ /\ \E w \in BagToSet(workers) : WorkerSleepDone(w)
       /\ UNCHANGED <<executor, license, api, pipeline>>

\* the event loop resumes the scheduling loop and a worker when they can
\* run, every pipeline function ends, and time passes
LiveSpec ==
    /\ Init /\ [][LiveNext]_vars
    /\ WF_vars(LiveTick)
    /\ WF_vars(LiveScan)
    /\ WF_vars(LiveDispatch)
    /\ WF_vars(LivePipelineEnds)

\* One pipeline executor is built and run, again and again; the scheduler
\* service stands still
ExecNext ==
    \/ \E cls \in TaskClasses : AddTask(cls)
    \/ \E context \in SeedContexts : SetContext(context)
    \/ ExecutorExecute
    \/ StepValidate
    \/ StepExecute
    \/ \E msg \in StepErrors : StepExecuteRaise(msg)
    \/ StepOnSuccess
    \/ \E msg \in StepErrors : StepOnSuccessRaise(msg)
    \/ StepOnFailure

ExecSpec == Init /\ [][ExecNext]_vars

----------------------------------------------------------------------------
(***************************************************************************)
(* Properties.                                                             *)
(***************************************************************************)
InFlightNext(id) == InFlightIn(workers', manual', id)

\* the time of day t lies in the task's window, bounds included
InsideWindow(task, t) ==
    /\ StrpTime(task.daily_start_time) # ParseError
    /\ StrpTime(task.daily_end_time) # ParseError
    /\ StrpTime(task.daily_start_time) <= TimeOfDay(t)
    /\ TimeOfDay(t) <= StrpTime(task.daily_end_time)

\* a step in which an execution that a worker dispatched ends
WorkerExecutionEnds == ExecCount(workers') < ExecCount(workers)

\* number of the workers W that are in the sleep of the error handler
ErrorSleepCount(W) == Copies(W, {w \in BagToSet(W) : w.pc = "sleep"})

\* C1: at no instant are two execute invocations of the same task in flight
C1_MutualExclusion == \A id \in Registered : InFlight(id) <= 1

\* C2: no task has status running while no execute of it is in flight, so
\* every end of execute (return, exception, cancellation) leaves the status
\* completed or failed
C2_NeverLeftRunning ==
    \A id \in Registered : tasks[id].status = "running" => InFlight(id) >= 1

\* C3: the worker executions that hold a permit never exceed the capacity,
\* and a permit is held exactly while a worker is inside task.execute
C3_PermitBound ==
    /\ ExecCount(workers) <= SemaphoreCapacity
    /\ ExecCount(workers) = SemaphoreCapacity - permits

\* all permits are held while one more popped task waits for a permit
C3_Witness ==
    /\ permits = 0
    /\ ExecCount(workers) = SemaphoreCapacity
    /\ \E w \in BagToSet(workers) : w.pc = "acquire"

\* C4: a worker that is inside execute when stop_service is called is not
\* interrupted: no step delivers the cancellation to a worker inside execute
C4_NotInterrupted ==
    [][\A w \in BagToSet(workers) : InExec(w) => ~WorkerCancelled(w)]_vars

\* C5: every worker dispatch whose execute ends increments exactly one of
\* tasks_executed and tasks_failed, by one
C5_OneCounterPerDispatch ==
    [][WorkerExecutionEnds =>
          /\ Finished(metrics') = Finished(metrics) + 1
          /\ metrics'.tasks_executed >= metrics.tasks_executed
          /\ metrics'.tasks_failed >= metrics.tasks_failed]_vars

\* C6: after each worker execution, successful or failed, the average is
\* (old_avg * (n - 1) + elapsed) / n with n the number of executions so far,
\* and the update raises no error
C6_RunningAverage ==
    [][\A w \in BagToSet(workers) :
          (WorkerExecReturn(w) \/ \E msg \in ErrorMessages : WorkerExecRaise(w, msg))
          => /\ metrics'.avg =
                  Frac(metrics.avg[1] * (Finished(metrics') - 1)
                          + TotalSeconds(now, w.start_time) * metrics.avg[2],
                       metrics.avg[2] * Finished(metrics'))
             /\ ErrorSleepCount(workers') <= ErrorSleepCount(workers)
      ]_vars

\* C7: when a run that a worker dispatched completes and the task's previous
\* completed run was also dispatched by a worker, their starts are at least
\* interval_minutes apart
C7_IntervalBetweenRuns ==
    [][\A w \in BagToSet(workers) :
          (WorkerExecReturn(w) /\ runs[w.task] # NoTime)
          => TotalSeconds(Abs(w.run_start - runs[w.task]), 0)
                >= tasks[w.task].interval_minutes * 60]_vars

\* C8: execute is never invoked at a time of day outside the task's window
C8_ExecuteInsideWindow ==
    [][\A id \in Registered :
          InFlightNext(id) > InFlight(id) => InsideWindow(tasks[id], now)]_vars

\* C8 as amended: the scheduling loop puts a task on the queue only at a
\* time of day inside the window the task has at that scan pass
C8_EnqueuedInsideWindow ==
    [][\A id \in Registered :
          Occurrences(task_queue', id) > Occurrences(task_queue, id)
          => InsideWindow(tasks[id], now)]_vars

\* a task with a window that does not cover the whole day is on the queue
C8_Witness ==
    \E id \in Registered :
        /\ Occurrences(task_queue, id) > 0
        /\ tasks[id].daily_start_time # <<0, 0>>
        /\ InsideWindow(tasks[id], now)

\* C9: no step puts a task on the queue whose enabled flag is false, and a
\* scan pass leaves the status of a disabled task unchanged
C9_DisabledNeverEnqueued ==
    [][\A id \in Registered :
          ~tasks[id].enabled =>
             /\ Occurrences(task_queue', id) <= Occurrences(task_queue, id)
             /\ ScanPass(MaxQueue) => tasks'[id].status = tasks[id].status]_vars

\* a scan pass has checked a disabled task that has status completed, is in
\* its window and past its interval, and has not put it on the queue
C9_Witness ==
    \E id \in Registered \ task_configs :
        /\ ~tasks[id].enabled
        /\ sched.pc = "sleep" /\ sleep_task.state = "pending"
        /\ tasks[id].status = "completed"
        /\ InsideWindow(tasks[id], now)
        /\ now - tasks[id].last_run >= tasks[id].interval_minutes
        /\ task_queue = << >>

RejectedRun == executor.rejected # 0

KeysOfSteps(n) ==
    UNION { DOMAIN TaskResult(executor.tasks[j]) : j \in 1..n }

\* C10: once validate of step k has returned False, execute of step k and
\* validate and execute of every later step are not called, the run does not
\* return and its error names step k, and the context holds the seed keys
\* and the keys returned by steps 1..k-1 and no other key
C10_AbortAtRejectedStep ==
    RejectedRun =>
        LET k == executor.rejected IN
        /\ \A n \in DOMAIN executor.calls : LET c == executor.calls[n] IN
              /\ c.op = "execute" => c.step < k
              /\ c.op = "validate" => c.step <= k
              /\ c.op = "on_success" => c.step < k
        /\ executor.pc \in {"on_failure", "raised"}
        /\ executor.error = [type |-> "ValueError", name |-> executor.tasks[k]]
        /\ DOMAIN executor.context = DOMAIN executor.seed \cup KeysOfSteps(k - 1)

\* the chain fetch, process, summarize has ended at the validate of its
\* third step, with the keys of the first two steps in the context
C10_Witness ==
    /\ executor.rejected = 3
    /\ executor.pc = "raised"
    /\ executor.tasks[3] = "GenerateSummariesTask"
    /\ {"fetched_articles", "processed_articles"} \subseteq DOMAIN executor.context

\* the calls of the run that are on_failure calls
FailureCalls == SelectSeq(executor.calls, LAMBDA c : c.op = "on_failure")

ExecuteRaised == executor.thrown # NoException

\* C11: once execute of step k has raised, on_failure of step k is the only
\* call that follows and it is made once, no call of a later step is made,
\* and the run ends by raising the exception that execute raised
C11_FailureHookOnceThenRaise ==
    ExecuteRaised =>
        LET k == executor.i
            last == executor.calls[Len(executor.calls)]
        IN
        /\ \A n \in DOMAIN executor.calls : executor.calls[n].step <= k
        /\ executor.pc \in {"on_failure", "raised"}
        /\ executor.pc = "on_failure" =>
              /\ FailureCalls = << >>
              /\ last = [step |-> k, op |-> "execute"]
        /\ executor.pc = "raised" =>
              /\ FailureCalls = << [step |-> k, op |-> "on_failure"] >>
              /\ last = [step |-> k, op |-> "on_failure"]
              /\ executor.error = executor.thrown

\* the second of three steps raised after the first one succeeded, and the
\* run has ended
C11_Witness ==
    /\ ExecuteRaised
    /\ executor.pc = "raised"
    /\ executor.i = 2
    /\ Len(executor.tasks) = 3
    /\ executor.thrown.name = "refused"

\* a step in which a call of the service raises
CallRaises(op, error) ==
    /\ api' # api
    /\ api'.op = op
    /\ api'.error = error

NothingChanges == UNCHANGED <<svars, license, executor, pipeline>>

\* manual executions of task id among M
ManualCount(M, id) == Copies(M, {e \in BagToSet(M) : e.task = id})

\* C12: start_task, update_task_schedule and get_task_info raise
\* TaskNotFoundError for an id that is not registered, and for no other id,
\* and the call changes nothing: tasks, registry, queue, metrics, executions
\* in flight and the sleep of the loop stay as they are
C12_NotFoundChangesNothing ==
    [][\A op \in {"start_task", "update_task_schedule", "get_task_info"} :
          CallRaises(op, "TaskNotFoundError")
          => /\ api'.id \notin Registered
             /\ NothingChanges]_vars

\* update_task_schedule of an unknown id has raised while a task waits in
\* the queue and the loop sleeps
C12_Witness ==
    /\ api = Raised("update_task_schedule", "missing", "TaskNotFoundError")
    /\ Registered # {}
    /\ task_queue # << >>
    /\ sched.pc = "sleep" /\ sleep_task.state = "pending"

\* C13: start_task on a task with status running raises ServiceStateError
\* and changes nothing, and no manual execution of a task begins while its
\* status is running
C13_RunningRejected ==
    [][/\ CallRaises("start_task", "ServiceStateError")
          => /\ api'.id \in Registered
             /\ tasks[api'.id].status = "running"
             /\ NothingChanges
       /\ \A id \in Registered :
             tasks[id].status = "running"
             => ManualCount(manual', id) <= ManualCount(manual, id)]_vars

\* start_task of a task that a worker is executing has raised
C13_Witness ==
    /\ api.op = "start_task" /\ api.error = "ServiceStateError"
    /\ api.id \in Registered
    /\ tasks[api.id].status = "running"
    /\ \E w \in BagToSet(workers) : InExec(w) /\ w.task = api.id
    /\ manual = EmptyBag

\* C14: start_service after license_end_datetime raises ServiceStateError and
\* changes nothing, and the datetimes are stored, the status set and workers
\* and loop launched only by a call whose licence has not expired
C14_ExpiredLicenseRejected ==
    [][/\ CallRaises("start_service", "ServiceStateError") => NothingChanges
       /\ (license' # license
           \/ (service_status' = "running" /\ service_status # "running")
           \/ BagCardinality(workers') > BagCardinality(workers))
          => ~(now > license'.license_end_datetime)]_vars

\* start_service has raised on a service that was never started
C14_Witness ==
    /\ api.op = "start_service" /\ api.error = "ServiceStateError"
    /\ service_status = "stopped"
    /\ license = NoLicense
    /\ workers = EmptyBag
    /\ sched.pc = "none"
    /\ Registered # {}

\* the next pass of the scheduling loop comes before the clock of the model
\* stops
NextPassInTime ==
    \/ sched.pc = "start"
    \/ sched.pc = "sleep" /\ sleep_task.state = "cancelled"
    \/ sched.pc = "sleep" /\ sleep_task.wake <= MaxTime

\* the service runs and task id, enabled, with the all-day window and an
\* interval of one minute, has not been executed yet
WaitsForFirstRun(id) ==
    /\ service_status = "running"
    /\ NextPassInTime
    /\ id \in Registered
    /\ tasks[id].enabled
    /\ tasks[id].daily_start_time = <<0, 0>>
    /\ tasks[id].daily_end_time = <<23, 59>>
    /\ tasks[id].interval_minutes = 1
    /\ tasks[id].last_run = NoTime

HasStatus(id, S) == id \in Registered /\ tasks[id].status \in S

\* C15: a started service with an enabled all-day task of interval 1 brings
\* the task to running and then to completed or failed, a task is running,
\* completed or failed only once last_run is set, and last_run stays set
C15_FirstRunHappens ==
    /\ \A id \in TaskIds : WaitsForFirstRun(id) ~> HasStatus(id, {"running"})
    /\ \A id \in TaskIds :
          WaitsForFirstRun(id) ~> HasStatus(id, {"completed", "failed"})
    /\ [](\A id \in Registered :
             tasks[id].status \in {"running", "completed", "failed"}
             => tasks[id].last_run # NoTime)
    /\ [][\A id \in Registered :
             tasks[id].last_run # NoTime => tasks'[id].last_run # NoTime]_vars

\* the first run of the task has completed
C15_Witness ==
    \E id \in Registered :
        /\ tasks[id].status = "completed"
        /\ tasks[id].last_run # NoTime
        /\ metrics.tasks_executed = 1
        /\ service_status = "running"

\* C16: update_task_schedule of a registered id, with or without a config,
\* sets the four schedule fields of the task, cancels the pending sleep of
\* the loop and raises no error
C16_UpdateTakesEffect ==
    [][\A id \in Registered, s \in ScheduleInputs :
          UpdateTaskSchedule(id, s)
          => /\ tasks'[id].daily_start_time = s.daily_start_time
             /\ tasks'[id].daily_end_time = s.daily_end_time
             /\ tasks'[id].interval_minutes = s.interval_minutes
             /\ tasks'[id].enabled = s.enabled
             /\ (sched.pc = "sleep" /\ sleep_task.state = "pending")
                => sleep_task'.state = "cancelled"
             /\ ~UpdateRaises(id)]_vars

\* C17: whenever an execute of a task begins, by a worker or by a manual
\* trigger, the status it replaces by running is idle or completed
C17_RunningOnlyFromIdleOrCompleted ==
    [][\A id \in Registered :
          InFlightNext(id) > InFlight(id)
          => tasks[id].status \in {"idle", "completed"}]_vars

\* the interval of the task has passed at time t, or the task never ran
PastInterval(task, t) ==
    \/ task.last_run = NoTime
    \/ TotalSeconds(t, task.last_run) >= task.interval_minutes * SecondsPerMinute

\* the task passes conditions (a), (c) and (d) of the eligibility check at t
PassesConditions(task, t) ==
    task.enabled /\ InsideWindow(task, t) /\ PastInterval(task, t)

\* a step of the scheduling loop that puts id on the queue: its check passed
CheckPasses(id) ==
    /\ Len(task_queue') = Len(task_queue) + 1
    /\ task_queue'[Len(task_queue')] = id

\* a step that takes the status of id from completed to idle
ResetsToIdle(id) ==
    tasks[id].status = "completed" /\ tasks'[id].status = "idle"

\* a step in which an execute of id ends
ExecuteEnds(id) == InFlightNext(id) < InFlight(id)

\* the reset to idle is made only by a check of the scheduling loop that
\* passes, and the end of execute never sets idle
ResetOnlyByPassingCheck(id) ==
    /\ ResetsToIdle(id) => CheckPasses(id) /\ PassesConditions(tasks[id], now)
    /\ ExecuteEnds(id) /\ tasks[id].status # "idle"
       => tasks'[id].status # "idle"

\* C18 as stated: the reset from completed to idle is made only by a passing
\* check of the scheduling loop, the end of execute never sets idle, and a
\* completed task that fails a condition keeps the status completed
C18_CompletedKeptWhileIneligible ==
    [][\A id \in Registered :
          /\ ResetOnlyByPassingCheck(id)
          /\ tasks[id].status = "completed" /\ ~PassesConditions(tasks[id], now)
             => tasks'[id].status = "completed"]_vars

\* C18, amended: the reset from completed to idle is made only by a passing
\* check of the scheduling loop, the end of execute never sets idle, and a
\* completed task that fails a condition is not set to idle while it fails it
C18_ResetOnlyInPassingCheck ==
    [][\A id \in Registered :
          /\ ResetOnlyByPassingCheck(id)
          /\ tasks[id].status = "completed" /\ ~PassesConditions(tasks[id], now)
             => tasks'[id].status # "idle"]_vars

\* a task that ran before is idle again and waits on the queue: a check of
\* the scheduling loop has reset it
C18_Witness ==
    \E id \in Registered :
        /\ tasks[id].status = "idle"
        /\ tasks[id].last_run # NoTime
        /\ Occurrences(task_queue, id) > 0

\* number of the workers W that hold an item they popped from the queue
HeldCount(W) == Copies(W, {w \in BagToSet(W) : HoldsTask(w)})

\* C19: every popped item is marked done once its execution has ended, so
\* the queue's count of unfinished items is the number of the items queued
\* or held by a worker, and is zero when the queue is empty and no worker
\* holds an item
C19_TaskDoneOncePerItem ==
    unfinished = Len(task_queue) + HeldCount(workers)

\* C20: when the execute of the task a worker holds raises while the service
\* runs, tasks_failed grows by one, the task is failed with an error, the
\* worker is still there and is not put to sleep, and the scheduling loop and
\* its sleep are as they were
C20_FailureContained ==
    [][\A w \in BagToSet(workers), msg \in ErrorMessages :
          WorkerExecRaise(w, msg) /\ service_status = "running"
          => /\ metrics'.tasks_failed = metrics.tasks_failed + 1
             /\ tasks'[w.task].status = "failed"
             /\ tasks'[w.task].error # NoError
             /\ BagCardinality(workers') = BagCardinality(workers)
             /\ ErrorSleepCount(workers') = ErrorSleepCount(workers)
             /\ sched' = sched
             /\ sleep_task' = sleep_task]_vars

\* the scheduling loop activity exists and has not ended
LoopAlive == sched.pc \in {"start", "sleep"}

\* C21: while service_status is running the scheduling loop is alive, and
\* the loop ends only when stop_service has stopped the service or has
\* cancelled the loop
C21_LoopAliveWhileRunning ==
    /\ [](service_status = "running" => LoopAlive)
    /\ [][LoopAlive /\ ~LoopAlive'
          => service_status = "stopped" \/ sched.must_cancel]_vars

\* the schedule invariant of a task: the window does not end before it
\* starts and the interval is positive
ValidSchedule(task) ==
    /\ StrpTime(task.daily_start_time) # ParseError
    /\ StrpTime(task.daily_end_time) # ParseError
    /\ StrpTime(task.daily_start_time) <= StrpTime(task.daily_end_time)
    /\ task.interval_minutes > 0

\* C22: after any sequence of register_task and update_task_schedule calls
\* every registered task has daily_start_time <= daily_end_time and
\* interval_minutes > 0, and a step that changes a schedule leaves it valid
C22_ScheduleStaysValid ==
    \A id \in Registered : ValidSchedule(tasks[id])

\* a step in which execute of the PipelineTask calls the pipeline function
CallsPipelineFunc == pipeline.pc = "idle" /\ pipeline'.pc = "await"

\* C23: the keyword arguments the pipeline function receives are the entries
\* of config["context"] as it is when execute begins
C23_KwargsAreContext ==
    [][CallsPipelineFunc => pipeline'.kwargs = pipeline.config.context]_vars

\* the task as an execute that began at time t leaves it when the pipeline
\* function has returned
EndsCompleted(task, t) ==
    task.status = "completed" /\ task.error = NoError /\ task.last_run = t

\* the task as an execute that began at time t leaves it when the pipeline
\* function has raised an exception whose str is msg
EndsFailed(task, msg, t) ==
    task.status = "failed" /\ task.error = msg /\ task.last_run = t

\* C24: an execute whose pipeline function returns ends with status completed
\* and error None, one whose function raises e ends with status failed and
\* error str(e), and in both cases last_run is the time that execute began
\* (for a manual execute, whose start is not recorded, the last_run it finds)
C24_ExecuteOutcome ==
    [][/\ \A w \in BagToSet(workers) :
             /\ WorkerExecReturn(w)
                => EndsCompleted(tasks'[w.task], w.run_start)
             /\ \A msg \in ErrorMessages :
                   WorkerExecRaise(w, msg)
                   => EndsFailed(tasks'[w.task], msg, w.run_start)
       /\ \A e \in BagToSet(manual) :
             /\ ManualReturn(e)
                => EndsCompleted(tasks'[e.task], tasks[e.task].last_run)
             /\ \A msg \in ErrorMessages :
                   ManualRaise(e, msg)
                   => EndsFailed(tasks'[e.task], msg, tasks[e.task].last_run)]_vars

\* a step that is a pass of the scheduling loop: it ends by creating a sleep
ScanStep == sleep_task'.state = "pending" /\ sleep_task' # sleep_task

\* a step in which a worker begins an execute of id
WorkerBegins(id) ==
    InFlightIn(workers', EmptyBag, id) > InFlightIn(workers, EmptyBag, id)

\* a step that puts id on the queue once
Enqueued(id) ==
    Occurrences(task_queue', id) = Occurrences(task_queue, id) + 1

\* C25: a worker begins an execute of a task whose last run failed only when
\* the task's interval has elapsed since last_run, and a pass of the
\* scheduling loop at which a failed task is enabled, inside its window and
\* past its interval puts it on the queue
C25_FailedRetriedAfterInterval ==
    [][\A id \in Registered :
          /\ WorkerBegins(id) /\ tasks[id].status = "failed"
             => PastInterval(tasks[id], now)
          /\ (ScanStep /\ tasks[id].status = "failed"
                       /\ PassesConditions(tasks[id], now))
             => Enqueued(id)]_vars

\* the dict new holds the keys of old and of u, with the value of u for a key
\* of u and the value of old for any other key
Overridden(new, old, u) ==
    /\ DOMAIN new = DOMAIN old \cup DOMAIN u
    /\ \A k \in DOMAIN u : new[k] = u[k]
    /\ \A k \in DOMAIN old \ DOMAIN u : new[k] = old[k]

\* the run of execute() is between its first validate and its end
InRun == executor.pc \in {"validate", "execute", "on_success", "on_failure"}

\* a step in which task.execute of the current step returns its map
StepSucceeds == executor.pc = "execute" /\ executor'.pc = "on_success"

\* C26: a step that succeeds leaves the context and the accumulated result
\* overridden by the map it returned, every other step of a run, an abort
\* included, leaves both as they are, and a run begins with an empty result
\* and the context it was given
C26_ContextOnlyGrows ==
    [][/\ StepSucceeds
          => LET task_result == TaskResult(executor.tasks[executor.i])
             IN  /\ Overridden(executor'.context, executor.context,
                               task_result)
                 /\ Overridden(executor'.result, executor.result, task_result)
       /\ InRun /\ ~StepSucceeds
          => /\ executor'.context = executor.context
             /\ executor'.result = executor.result
       /\ ExecutorAtRest /\ executor'.pc \in {"validate", "returned"}
                         /\ executor'.calls = << >>
                         /\ executor'.tasks = executor.tasks
                         /\ executor'.context = executor.context
          => executor'.result = EmptyDict]_vars

\* a run given a context with every seed key has aborted at its second step:
\* the context holds the seed keys, with the value of the first step for the
\* key that step returned
C26_Witness ==
    /\ executor.pc = "raised"
    /\ executor.i = 2
    /\ DOMAIN executor.seed = SeedKeys
    /\ DOMAIN executor.context = SeedKeys
    /\ executor.seed["fetched_articles"] = "config"
    /\ executor.context["fetched_articles"] = "FetchArticlesTask"
    /\ DOMAIN executor.result = {"fetched_articles"}

\* a step in which a manual trigger enters execute or its execute ends
ManualStep == manual' # manual

\* C27: a step of a manual trigger, the call of execute or its end, changes
\* neither the queue nor its count of unfinished items, neither the value of
\* the semaphore nor a counter or the average of the metrics
C27_ManualBypassesQueue ==
    [][ManualStep => /\ task_queue' = task_queue
                     /\ unfinished' = unfinished
                     /\ permits' = permits
                     /\ metrics' = metrics
                     /\ workers' = workers]_vars

\* a manual execution is in flight while every permit is held by a worker
C27_Witness ==
    /\ permits = 0
    /\ ExecCount(workers) = SemaphoreCapacity
    /\ manual # EmptyBag

\* number of the worker activities of W that no cancel() has been called on
LiveWorkers(W) == Copies(W, {w \in BagToSet(W) : ~w.must_cancel})

\* C28: after any sequence of start_service and stop_service calls at most
\* max_workers worker activities are alive
C28_WorkerPoolBounded == LiveWorkers(workers) <= max_workers

\* C29: a task that waits in the queue is not put on it again: every task
\* is on the queue at most once
C29_QueuedAtMostOnce ==
    \A id \in Registered : Occurrences(task_queue, id) <= 1

\* the calls of the run that are on_success calls
SuccessCalls == SelectSeq(executor.calls, LAMBDA c : c.op = "on_success")

\* C30: a run that has ended by raising, whatever aborted it, has called
\* on_failure once, as its last call and on the step that aborted, and hands
\* the caller the exception that aborted it; until then, and in a run that
\* returns, on_failure is not called; a run that returns has called
\* on_success once per step, in the order of the steps
C30_OneFailureHookPerAbort ==
    /\ [](/\ executor.pc = "raised"
             => /\ FailureCalls = << [step |-> executor.i, op |-> "on_failure"] >>
                /\ executor.calls[Len(executor.calls)].op = "on_failure"
                /\ executor.error # NoException
          /\ executor.pc # "raised" => FailureCalls = << >>
          /\ executor.pc = "returned"
             => SuccessCalls = [j \in 1..Len(executor.tasks) |->
                                   [step |-> j, op |-> "on_success"]])
    /\ [][executor.pc = "on_failure"
          => /\ executor.error # NoException
             /\ executor'.error = executor.error]_vars

\* the on_success of the second step raised after the step's map was merged,
\* and the run has ended by raising that exception
C30_Witness ==
    /\ executor.pc = "raised"
    /\ executor.i = 2
    /\ executor.error.type = "CallbackError"
    /\ executor.tasks[2] = "ProcessArticlesTask"
    /\ "processed_articles" \in DOMAIN executor.context

====
